---- MODULE Spec2Model ----
(***************************************************************************)
(* Model of the single-observation consensus reactor                       *)
(* (node/pkg/processor/reactor/reactor.go).                                *)
(*                                                                         *)
(* Time.  Every time.Time field of reactorState is kept as the time that   *)
(* has elapsed since it was stamped, in ticker periods (seconds): a stamp  *)
(* `x = time.Now()` is `x = TimeNow`, and `time.Since(x)` is Since(x).     *)
(* The action Advance lets one second pass.  An elapsed time saturates at  *)
(* AgeCap, which is larger than every finite configured duration, so the   *)
(* comparisons of housekeeping are exact.  A field that was never stamped  *)
(* is the zero time.Time (ZeroTime), for which time.Since saturates at the *)
(* largest time.Duration (MaxDuration).                                    *)
(***************************************************************************)
EXTENDS Integers, Sequences, FiniteSets, TLC

\* ---------------------------------------------------------------- bounds
\* Largest guardian set considered.
MaxGuardians == 4
\* Largest finite duration a Config field takes, in seconds.
MaxTimeout == 1
\* Number of distinct signing digests (observations) on the wire.
NumDigests == 2

\* Elapsed times saturate here: "longer than every finite configured duration".
AgeCap == MaxTimeout + 1
\* The largest time.Duration; time.Since(zero time.Time) returns it.
MaxDuration == AgeCap + 1
\* The zero value of time.Time.
ZeroTime == -1
\* The value time.Now() stamps into a field: no time has elapsed since.
TimeNow == 0

Since(t) == IF t = ZeroTime THEN MaxDuration ELSE t

\* One second passes for a stamped field.
Older(t) == IF t = ZeroTime THEN ZeroTime ELSE IF t < AgeCap THEN t + 1 ELSE AgeCap

\* ---------------------------------------------------------------- values
StateInitialized == "initialized"
StateObserved == "observed"
StateUnobserved == "unobserved"
StateQuorum == "quorum"
StateQuorumUnobserved == "quorum_unobserved"
StateFinalized == "finalized"
StateTimedOut == "timed_out"

\* Guardian addresses. The last one is in no guardian set.
Address == 1 .. (MaxGuardians + 1)
OutsideAddress == MaxGuardians + 1
\* The address Ecrecover yields for a signature made over another digest:
\* some key nobody holds.
StrangerAddress == 0

\* gs.Keys of a guardian set with n guardians. Index order differs from
\* address order.
GuardianKeys(n) == [i \in 1 .. n |-> n + 1 - i]

Digest == 1 .. NumDigests

\* The digest of the message this reactor was created for.
LocalDigest == 1

\* An observation K: MessageID() and SigningMsg(). The node observes the
\* message the reactor was created for.
Observation == {[MessageID |-> LocalDigest, SigningMsg |-> LocalDigest]}
\* The zero value of K.
NoObservation == [MessageID |-> 0, SigningMsg |-> 0]

\* A 65-byte signature is determined by the key that made it and the digest
\* it was made over: [key, digest].
\* Bytes that are no signature at all.
MalformedSignature == [key |-> 0, digest |-> 0]
\* The nil []byte.
NoSignature == [key |-> 0, digest |-> -1]

\* The guardian whose signatures of other digests circulate on the network
\* (its observations of other messages, which any peer can relay). It is in
\* every guardian set, and the local signer may be this guardian.
ReplayedAddress == 1

\* gossipv1.SignedObservation as received from a peer. An honest holder of a
\* key (guardian or not) sends its signature of the reactor's digest under its
\* own address. A faulty peer sends a signature of ReplayedAddress over any
\* digest, or bytes that are no signature, under any address and with any hash.
SignedObservation ==
    {[Addr |-> a, Hash |-> LocalDigest,
      Signature |-> [key |-> a, digest |-> LocalDigest]] : a \in Address}
    \cup
    [Addr : Address, Hash : Digest,
     Signature : {[key |-> ReplayedAddress, digest |-> d] : d \in Digest}
                 \cup {MalformedSignature}]

\* Config.Signer = nil.
NoSigner == 0

VARIABLES
    gs,                   \* c.gs.Keys
    config,               \* c.config
    consensusSender,      \* c.consensusSender # nil
    stateTransitionHook,  \* c.stateTransitionHook # nil
    state,                \* c.state
    hooks,                \* hook goroutines started so far: <<old, new>>
    sent,                 \* messages handed to consensusSender.Send so far
    mutex,                \* c.state.mutex is held
    pc,                   \* where Run is: running, done (returned nil),
                          \* cancelled (returned ctx.Err()), panicked
    ctxDone,              \* ctx of Run is cancelled
    last                  \* the event handled last and what it did

vars == <<gs, config, consensusSender, stateTransitionHook, state, hooks, sent,
          mutex, pc, ctxDone, last>>

\* ------------------------------------------------------------- helpers
\* vaa.CalculateQuorum
CalculateQuorum(n) == (n * 2) \div 3 + 1

\* gs.KeyIndex: is the address in the guardian set?
HasKeyIndex(a) == \E i \in 1 .. Len(gs) : gs[i] = a

\* crypto.Ecrecover followed by the address derivation: the address of the
\* key that signed, or an error for bytes that are no signature.
EcrecoverOk(hash, sig) == sig # MalformedSignature
EcrecoverAddress(hash, sig) ==
    IF sig.digest = hash THEN sig.key ELSE StrangerAddress

\* Signer.Sign
Sign(signer, digest) == [key |-> signer, digest |-> digest]

\* map store: signatures[a] = s
Store(sigs, a, s) == [x \in DOMAIN sigs \cup {a} |-> IF x = a THEN s ELSE sigs[x]]

\* What a handler works on: the reactor state and the effects it has had.
Handling(s, h, g) ==
    [state |-> s, hooks |-> h, sent |-> g, mutex |-> FALSE,
     send |-> "none", terminate |-> FALSE, panic |-> FALSE]

\* An Unlock that is not deferred: a handler that panics never reaches it.
UnlockOnReturn(r) == IF r.panic THEN r ELSE [r EXCEPT !.mutex = FALSE]
\* c.state.mutex.Lock() and the deferred c.state.mutex.Unlock(), which runs
\* when the handler returns and when it panics.
Lock(r) == [r EXCEPT !.mutex = TRUE]
Unlock(r) == [r EXCEPT !.mutex = FALSE]

\* stateTransition that never starts the hook.
stateTransitionUnhooked(r, to) == [r EXCEPT !.state.currentState = to]
stateTransition(r, to) ==
    [r EXCEPT !.state.currentState = to,
              !.hooks = IF stateTransitionHook
                        THEN Append(@, <<r.state.currentState, to>>)
                        ELSE @]

\* A retransmission test that waits for a first successful send.
RetransmitDueAfterSuccess(r) ==
    /\ r.state.lastTransmission # ZeroTime
    /\ Since(r.state.lastTransmission) > config.RetransmitFrequency
\* housekeeping, StateObserved: is a retransmission due?
RetransmitDue(r) ==
    Since(r.state.lastTransmission) > config.RetransmitFrequency

GraceOverByTimeOnly(r) ==
    Since(r.state.timeQuorum) > config.QuorumGracePeriod
\* housekeeping, StateQuorum: finalize now?
GraceOver(r) ==
    \/ Since(r.state.timeQuorum) > config.QuorumGracePeriod
    \/ Len(gs) = Cardinality(DOMAIN r.state.signatures)

\* housekeeping: "This is the final iteration"
Concluded(cs) == cs \in {StateFinalized, StateTimedOut}

AcceptsForeignInAnyState(cs) == TRUE
\* observationReceived: the states in which a foreign observation is looked at.
AcceptsForeign(cs) ==
    ~(/\ cs # StateObserved /\ cs # StateUnobserved /\ cs # StateQuorum
      /\ cs # StateQuorumUnobserved /\ cs # StateInitialized)

\* observed: the states in which a local observation is accepted.
AcceptsLocal(cs) ==
    ~(cs # StateInitialized /\ cs # StateUnobserved /\ cs # StateQuorumUnobserved)

IsDuplicateNever(r, m) == FALSE
\* observationReceived: "Have we already received this observation"
IsDuplicate(r, m) == m.Addr \in DOMAIN r.state.signatures

hasQuorumStrictlyMore(r) ==
    Cardinality(DOMAIN r.state.signatures) > CalculateQuorum(Len(gs))
hasQuorum(r) ==
    Cardinality(DOMAIN r.state.signatures) >= CalculateQuorum(Len(gs))

\* timeOut that gives up whatever the state.
timeOutFromAnyState(r) == stateTransition(r, StateTimedOut)
timeOut(r) ==
    IF r.state.currentState = StateQuorum
    THEN stateTransition(r, StateFinalized)
    ELSE stateTransition(r, StateTimedOut)

\* transmitSignature without its check for a signer.
transmitSignatureUnchecked(r, addrOk, sendOk) ==
    IF ~consensusSender THEN [r EXCEPT !.send = "no_sender"]
    ELSE IF ~addrOk THEN [r EXCEPT !.send = "no_address"]
    ELSE LET signedO == [Addr |-> config.Signer,
                         Hash |-> r.state.observation.SigningMsg,
                         Signature |-> r.state.localSignature]
         IN  IF ~sendOk
             THEN [r EXCEPT !.sent = @ \cup {signedO}, !.send = "failed"]
             ELSE [r EXCEPT !.sent = @ \cup {signedO}, !.send = "ok",
                            !.state.lastTransmission = TimeNow]

\* transmitSignature that forgets to stamp lastTransmission.
transmitSignatureUnstamped(r, addrOk, sendOk) ==
    IF config.Signer = NoSigner THEN [r EXCEPT !.send = "no_signer"]
    ELSE IF ~consensusSender THEN [r EXCEPT !.send = "no_sender"]
    ELSE IF ~addrOk THEN [r EXCEPT !.send = "no_address"]
    ELSE LET signedO == [Addr |-> config.Signer,
                         Hash |-> r.state.observation.SigningMsg,
                         Signature |-> r.state.localSignature]
         IN  IF ~sendOk
             THEN [r EXCEPT !.sent = @ \cup {signedO}, !.send = "failed"]
             ELSE [r EXCEPT !.sent = @ \cup {signedO}, !.send = "ok"]

\* addrOk: Signer.Address succeeds; sendOk: consensusSender.Send succeeds.
transmitSignature(r, addrOk, sendOk) ==
    IF config.Signer = NoSigner THEN [r EXCEPT !.send = "no_signer"]
    ELSE IF ~consensusSender THEN [r EXCEPT !.send = "no_sender"]
    ELSE IF ~addrOk THEN [r EXCEPT !.send = "no_address"]
    ELSE LET signedO == [Addr |-> config.Signer,
                         Hash |-> r.state.observation.SigningMsg,
                         Signature |-> r.state.localSignature]
         IN  IF ~sendOk
             THEN [r EXCEPT !.sent = @ \cup {signedO}, !.send = "failed"]
             ELSE [r EXCEPT !.sent = @ \cup {signedO}, !.send = "ok",
                            !.state.lastTransmission = TimeNow]

\* verifySignedObservation without the guardian-set lookup.
verifySignedObservationAnyAddress(m) ==
    IF ~EcrecoverOk(m.Hash, m.Signature) THEN "invalid_signature"
    ELSE IF m.Addr # EcrecoverAddress(m.Hash, m.Signature) THEN "pubkey_mismatch"
    ELSE "ok"

verifySignedObservation(m) ==
    IF ~EcrecoverOk(m.Hash, m.Signature) THEN "invalid_signature"
    ELSE IF m.Addr # EcrecoverAddress(m.Hash, m.Signature) THEN "pubkey_mismatch"
    ELSE IF ~HasKeyIndex(m.Addr) THEN "unknown_guardian"
    ELSE "ok"

\* housekeeping that gives up an unobserved message at its deadline already.
housekeepingAtDeadline(r, addrOk, sendOk) ==
    LET cs == r.state.currentState IN
    CASE cs = StateUnobserved ->
           IF Since(r.state.firstSeen) >= config.UnobservedTimeout
           THEN timeOut(r) ELSE r
      [] cs = StateObserved ->
           LET r1 == IF Since(r.state.lastObservation) > config.QuorumTimeout
                     THEN timeOut(r) ELSE r
           IN  IF RetransmitDue(r1)
               THEN transmitSignature(r1, addrOk, sendOk)
               ELSE r1
      [] cs = StateQuorum ->
           IF GraceOver(r) THEN timeOut(r) ELSE r
      [] cs = StateQuorumUnobserved ->
           IF Since(r.state.firstSeen) > config.UnobservedTimeout
           THEN timeOut(r) ELSE r
      [] Concluded(cs) ->
           [r EXCEPT !.terminate = TRUE]
      [] OTHER -> r
housekeeping(r, addrOk, sendOk) ==
    LET cs == r.state.currentState IN
    CASE cs = StateUnobserved ->
           IF Since(r.state.firstSeen) > config.UnobservedTimeout
           THEN timeOut(r) ELSE r
      [] cs = StateObserved ->
           LET r1 == IF Since(r.state.lastObservation) > config.QuorumTimeout
                     THEN timeOut(r) ELSE r
           IN  IF RetransmitDue(r1)
               THEN transmitSignature(r1, addrOk, sendOk)
               ELSE r1
      [] cs = StateQuorum ->
           IF GraceOver(r) THEN timeOut(r) ELSE r
      [] cs = StateQuorumUnobserved ->
           IF Since(r.state.firstSeen) > config.UnobservedTimeout
           THEN timeOut(r) ELSE r
      [] Concluded(cs) ->
           [r EXCEPT !.terminate = TRUE]
      [] OTHER -> r

observationReceived(r, m) ==
    LET cs == r.state.currentState IN
    IF ~AcceptsForeign(cs)
    THEN r
    ELSE IF verifySignedObservation(m) # "ok"
    THEN r
    ELSE IF IsDuplicate(r, m)
    THEN r
    ELSE
      LET r1 == [r EXCEPT !.state.signatures = Store(@, m.Addr, m.Signature),
                          !.state.lastObservation = TimeNow]
          r2 == IF cs = StateInitialized
                THEN stateTransition([r1 EXCEPT !.state.firstSeen = TimeNow],
                                     StateUnobserved)
                ELSE r1
      IN  IF ~hasQuorum(r2) THEN r2
          ELSE CASE r2.state.currentState = StateObserved ->
                      stateTransition(r2, StateQuorum)
                 [] r2.state.currentState = StateUnobserved ->
                      stateTransition(r2, StateQuorumUnobserved)
                 [] OTHER -> r2

\* addrOk, signOk: Signer.Address and Signer.Sign succeed; txAddrOk, sendOk:
\* the lookup and the send of transmitSignature succeed.
observed(r, o, addrOk, signOk, txAddrOk, sendOk) ==
    LET cs == r.state.currentState IN
    IF ~AcceptsLocal(cs)
    THEN r
    ELSE
      LET r1 == [r EXCEPT !.state.observation = o]
      IN
      IF config.Signer # NoSigner /\ (~addrOk \/ ~signOk)
      THEN [r1 EXCEPT !.panic = TRUE]
      ELSE
        LET r2 == IF config.Signer # NoSigner
                  THEN LET s == Sign(config.Signer, o.SigningMsg)
                       IN  transmitSignature(
                             [r1 EXCEPT !.state.localSignature = s,
                                        !.state.signatures = Store(@, config.Signer, s)],
                             txAddrOk, sendOk)
                  ELSE r1
            r3 == CASE cs = StateInitialized ->
                         stateTransition(
                           [r2 EXCEPT !.state.firstSeen = TimeNow,
                                      !.state.lastObservation = TimeNow],
                           StateObserved)
                    [] cs = StateUnobserved ->
                         stateTransition(
                           [r2 EXCEPT !.state.lastObservation = TimeNow],
                           StateObserved)
                    [] cs = StateQuorumUnobserved ->
                         stateTransition(r2, StateQuorum)
        IN  IF cs = StateQuorumUnobserved THEN r3
            ELSE IF ~hasQuorum(r3) THEN r3
            ELSE IF r3.state.currentState = StateObserved
                 THEN stateTransition(r3, StateQuorum)
                 ELSE r3

\* VAASignatures that puts each entry in front of the ones found before.
RECURSIVE SignaturesFromPrepending(_, _)
SignaturesFromPrepending(i, sigs) ==
    IF i > Len(gs) THEN <<>>
    ELSE SignaturesFromPrepending(i + 1, sigs) \o
         (IF gs[i] \in DOMAIN sigs
          THEN <<[Index |-> (i - 1) % 256, Signature |-> sigs[gs[i]]]>>
          ELSE <<>>)

\* VAASignatures: the loop over gs.Keys from position i (counted from 1) on,
\* <<Index, Signature>> in guardian-set order. Index is a uint8.
RECURSIVE SignaturesFrom(_, _)
SignaturesFrom(i, sigs) ==
    IF i > Len(gs) THEN <<>>
    ELSE (IF gs[i] \in DOMAIN sigs
          THEN <<[Index |-> (i - 1) % 256, Signature |-> sigs[gs[i]]]>>
          ELSE <<>>) \o SignaturesFrom(i + 1, sigs)

VAASignatures == SignaturesFrom(1, state.signatures)

\* ---------------------------------------------------------------- Init
Duration == 0 .. MaxTimeout
\* timeQuorum is compared with the grace period only: a finite one, and the
\* largest Duration ("never finalize on grace alone").
GracePeriod == {MaxTimeout, MaxDuration}

\* NewReactor, given a sender and a hook.
Init ==
    /\ \E n \in 1 .. MaxGuardians : gs = GuardianKeys(n)
    /\ config \in [RetransmitFrequency : Duration,
                   QuorumGracePeriod : GracePeriod,
                   QuorumTimeout : Duration,
                   UnobservedTimeout : Duration,
                   Signer : {NoSigner, ReplayedAddress, OutsideAddress}]
    /\ consensusSender = TRUE
    /\ stateTransitionHook = TRUE
    /\ state = [currentState |-> StateInitialized,
                firstSeen |-> ZeroTime,
                lastObservation |-> ZeroTime,
                lastTransmission |-> ZeroTime,
                timeQuorum |-> ZeroTime,
                observation |-> NoObservation,
                signatures |-> <<>>,
                localSignature |-> NoSignature]
    /\ hooks = <<>>
    /\ sent = {}
    /\ mutex = FALSE
    /\ pc = "running"
    /\ ctxDone = FALSE
    /\ last = [event |-> "none", send |-> "none"]

\* ------------------------------------------------------------- actions
Config == <<gs, config, consensusSender, stateTransitionHook>>

\* What a handler leaves behind.
Apply(ev, r) ==
    /\ state' = r.state
    /\ hooks' = r.hooks
    /\ sent' = r.sent
    /\ mutex' = r.mutex
    /\ last' = [event |-> ev, send |-> r.send]

\* Run: case o := <-c.observationChannel
LocalObservation ==
    /\ pc = "running"
    /\ \E o \in Observation, addrOk \in BOOLEAN, signOk \in BOOLEAN,
          txAddrOk \in BOOLEAN, sendOk \in BOOLEAN :
         LET r == Unlock(observed(Lock(Handling(state, hooks, sent)), o,
                                  addrOk, signOk, txAddrOk, sendOk))
         IN  /\ Apply("local", r)
             /\ pc' = IF r.panic THEN "panicked" ELSE pc
    /\ UNCHANGED <<Config, ctxDone>>

\* Run: case o := <-c.foreignObservationChannel, for the message m
Receive(m) ==
    /\ pc = "running"
    /\ Apply("foreign",
             Unlock(observationReceived(Lock(Handling(state, hooks, sent)), m)))
    /\ UNCHANGED <<Config, pc, ctxDone>>

ForeignObservation == \E m \in SignedObservation : Receive(m)

\* Run: case <-ticker.C
Tick ==
    /\ pc = "running"
    /\ \E addrOk \in BOOLEAN, sendOk \in BOOLEAN :
         LET r == Unlock(housekeeping(Lock(Handling(state, hooks, sent)),
                                      addrOk, sendOk))
         IN  /\ Apply("tick", r)
             /\ pc' = IF r.terminate THEN "done" ELSE pc
    /\ UNCHANGED <<Config, ctxDone>>

\* The context of Run is cancelled.
Cancel ==
    /\ pc = "running"
    /\ ~ctxDone
    /\ ctxDone' = TRUE
    /\ UNCHANGED <<Config, state, hooks, sent, mutex, pc, last>>

\* Run: case <-ctx.Done()
ReturnCancelled ==
    /\ pc = "running"
    /\ ctxDone
    /\ pc' = "cancelled"
    /\ last' = [event |-> "cancelled", send |-> "none"]
    /\ UNCHANGED <<Config, state, hooks, sent, mutex, ctxDone>>

\* The reactor state one second later: every stamp is one second older.
Aged(s) == [s EXCEPT !.firstSeen = Older(@),
                     !.lastObservation = Older(@),
                     !.lastTransmission = Older(@),
                     !.timeQuorum = Older(@)]

\* One second passes.
Advance ==
    /\ state' = Aged(state)
    /\ last' = [event |-> "time", send |-> "none"]
    /\ UNCHANGED <<Config, hooks, sent, mutex, pc, ctxDone>>

\* Run while its context stays live.
Next ==
    \/ LocalObservation
    \/ ForeignObservation
    \/ Tick
    \/ Advance

Spec == Init /\ [][Next]_vars

\* Run under the scheduling the runtime gives it: the ticker keeps firing and
\* select takes a ready case at random, so a tick is handled again and again;
\* time passes.
LiveSpec == Init /\ [][Next]_vars /\ WF_vars(Tick) /\ WF_vars(Advance)

\* Run with a context that may be cancelled.
NextCancel ==
    \/ LocalObservation
    \/ ForeignObservation
    \/ Tick
    \/ Advance
    \/ Cancel
    \/ ReturnCancelled

SpecCancel == Init /\ [][NextCancel]_vars

\* ---------------------------------------------------------------- claims
Terminal(cs) == cs \in {StateFinalized, StateTimedOut}
QuorumReached(cs) == cs \in {StateQuorum, StateQuorumUnobserved}
SignatureCount == Cardinality(DOMAIN state.signatures)
GuardianAddresses == {gs[i] : i \in 1 .. Len(gs)}

\* C1: once currentState is Finalized or TimedOut, no later event changes a
\* field of the reactor state: a handled event leaves the state as it is, and
\* the passing of time only makes the stamps older.
C1_TerminalStateIsFrozen ==
    [][Terminal(state.currentState) =>
         IF last'.event = "time" THEN state' = Aged(state) ELSE state' = state]_vars

\* A foreign observation was handled by a reactor that was already Finalized.
C1_Witness ==
    /\ state.currentState = StateFinalized
    /\ last.event = "foreign"

\* C2: when quorum is newly reached timeQuorum is stamped with the current
\* time, and a tick moves a reactor in Quorum that holds fewer signatures than
\* there are guardians to Finalized only when more than QuorumGracePeriod has
\* elapsed since timeQuorum.
C2_QuorumStampedAndGraceAwaited ==
    [][/\ (~QuorumReached(state.currentState) /\ QuorumReached(state'.currentState))
            => state'.timeQuorum = TimeNow
       /\ (/\ state.currentState = StateQuorum
           /\ SignatureCount < Len(gs)
           /\ last'.event = "tick"
           /\ state'.currentState = StateFinalized)
            => Since(state.timeQuorum) > config.QuorumGracePeriod]_vars

\* C3: whenever the number of stored signatures is at least
\* floor(2n/3)+1 for a guardian set of n, currentState is one of Quorum,
\* QuorumUnobserved, Finalized, TimedOut.
C3_QuorumCountImpliesQuorumState ==
    SignatureCount >= (2 * Len(gs)) \div 3 + 1
        => state.currentState \in {StateQuorum, StateQuorumUnobserved,
                                   StateFinalized, StateTimedOut}

\* The local signature alone reached the threshold.
C3_Witness ==
    /\ config.Signer # NoSigner
    /\ DOMAIN state.signatures = {config.Signer}
    /\ state.currentState = StateQuorum
    /\ last.event = "local"

\* C4: without a signer, localSignature is never set, the gossip sender is
\* never invoked, and a local observation adds no entry to signatures.
C4_NoSignerNeverSignsNorSends ==
    /\ [](config.Signer = NoSigner =>
            /\ state.localSignature = NoSignature
            /\ sent = {}
            /\ last.send \notin {"ok", "failed"})
    /\ [][(config.Signer = NoSigner /\ last'.event = "local")
            => state'.signatures = state.signatures]_vars

\* Without a signer the retransmission branch of housekeeping was taken in
\* state Observed, and nothing was sent.
C4_Witness ==
    /\ config.Signer = NoSigner
    /\ state.currentState = StateObserved
    /\ last.event = "tick"
    /\ last.send = "no_signer"

\* The reasons for which a foreign observation is rejected.
Rejected(m) ==
    \/ Terminal(state.currentState)
    \/ m.Signature = MalformedSignature
    \/ m.Signature.key # m.Addr
    \/ m.Signature.digest # m.Hash
    \/ m.Addr \notin GuardianAddresses
    \/ m.Addr \in DOMAIN state.signatures

\* C5: in every reachable state, handling a foreign observation that is
\* rejected leaves the reactor state unchanged and dispatches no hook.
C5_RejectedObservationChangesNothing ==
    \A m \in SignedObservation :
        Rejected(m) =>
            LET r == observationReceived(Handling(state, hooks, sent), m)
            IN  r.state = state /\ r.hooks = hooks

\* A foreign observation was handled and none is stored: it was rejected.
C5_Witness ==
    /\ last.event = "foreign"
    /\ state.currentState = StateInitialized

\* C6: a tick moves a reactor in Quorum that holds as many signatures as
\* there are guardians to Finalized, whatever the grace period.
C6_FullSetFinalizesOnNextTick ==
    [][(/\ state.currentState = StateQuorum
        /\ SignatureCount = Len(gs)
        /\ last'.event = "tick")
         => state'.currentState = StateFinalized]_vars

\* Finalized by a tick although the grace period never runs out.
C6_Witness ==
    /\ config.QuorumGracePeriod = MaxDuration
    /\ state.currentState = StateFinalized
    /\ SignatureCount = Len(gs)
    /\ last.event = "tick"

\* C7: VAASignatures has exactly one entry for each guardian that has a stored
\* signature, none for a stored address outside the guardian set, indices in
\* [0, |gs|), strictly ascending.
C7_VAASignaturesInGuardianOrder ==
    LET v == VAASignatures IN
    /\ \A i \in 1 .. Len(v) :
         /\ v[i].Index >= 0 /\ v[i].Index < Len(gs)
         /\ gs[v[i].Index + 1] \in DOMAIN state.signatures
         /\ v[i].Signature = state.signatures[gs[v[i].Index + 1]]
    /\ \A i \in 1 .. Len(v) - 1 : v[i].Index < v[i + 1].Index
    /\ \A a \in DOMAIN state.signatures \cap GuardianAddresses :
         Cardinality({i \in 1 .. Len(v) : gs[v[i].Index + 1] = a}) = 1
    /\ Len(v) = Cardinality(DOMAIN state.signatures \cap GuardianAddresses)

\* Signatures of three guardians and of a signer outside the guardian set are stored.
C7_Witness ==
    /\ OutsideAddress \in DOMAIN state.signatures
    /\ Len(VAASignatures) = 3

\* C8: currentState = Initialized implies that signatures is empty and
\* observation is unset, also in the state a handler leaves when it aborts.
C8_InitializedHoldsNothing ==
    state.currentState = StateInitialized
        => (state.signatures = <<>> /\ state.observation = NoObservation)

\* The first tick handled in a terminal state makes Run return nil.
ReturnsOnTerminalTick ==
    [][(Terminal(state.currentState) /\ pc = "running" /\ last'.event = "tick")
        => pc' = "done"]_vars

RetransmitTick ==
    /\ config.Signer # NoSigner
    /\ state.currentState = StateObserved
    /\ Since(state.lastTransmission) > config.RetransmitFrequency
    /\ last'.event = "tick"

\* The broadcast of the local signature.
LocalBroadcast ==
    [Addr |-> config.Signer,
     Hash |-> state.observation.SigningMsg,
     Signature |-> state.localSignature]

\* C10 as stated: every such tick hands the sender the message of the first
\* broadcast, a successful send stamps lastTransmission, and the reactor stays
\* in Observed unless the quorum timeout has expired.
C10_RetransmitTickAlwaysSends ==
    [][RetransmitTick =>
         /\ last'.send \in {"ok", "failed"}
         /\ sent' = {LocalBroadcast}
         /\ last'.send = "ok" => state'.lastTransmission = TimeNow
         /\ ~(Since(state.lastObservation) > config.QuorumTimeout)
              => state'.currentState = StateObserved]_vars

\* C10, amended: the same when the signer's address lookup succeeds; when it
\* fails nothing is handed to the sender; lastTransmission changes on a
\* successful send only.
C10_RetransmitTickSendsIfAddressKnown ==
    [][RetransmitTick =>
         /\ \/ last'.send \in {"ok", "failed"} /\ sent' = {LocalBroadcast}
            \/ last'.send = "no_address" /\ sent' = sent
         /\ last'.send = "ok" => state'.lastTransmission = TimeNow
         /\ last'.send # "ok" => state'.lastTransmission = state.lastTransmission
         /\ ~(Since(state.lastObservation) > config.QuorumTimeout)
              => state'.currentState = StateObserved]_vars

\* A retransmission succeeded on a tick later than the local observation, and
\* the reactor is still in Observed.
C10_Witness ==
    /\ state.currentState = StateObserved
    /\ last.event = "tick"
    /\ last.send = "ok"
    /\ state.lastTransmission = TimeNow
    /\ state.lastObservation >= 1

\* The hooks dispatched so far tell the changes of currentState one by one:
\* each carries two different states, the first starts at Initialized, each
\* next one starts where the one before ended, and the last ends at
\* currentState.
HooksTellEveryChange ==
    /\ \A i \in 1 .. Len(hooks) :
         /\ hooks[i][1] # hooks[i][2]
         /\ hooks[i][1] = IF i = 1 THEN StateInitialized ELSE hooks[i - 1][2]
    /\ state.currentState =
         IF hooks = <<>> THEN StateInitialized ELSE hooks[Len(hooks)][2]

\* The hook invocations that carry a terminal new state.
TerminalHooks == {i \in 1 .. Len(hooks) : Terminal(hooks[i][2])}

\* C11: with a hook configured, every change of currentState dispatches
\* exactly one hook carrying (old, new) with old # new, a dispatched hook is
\* never taken back, and exactly one hook carries a terminal new state if the
\* reactor is terminal, none otherwise.
C11_OneHookPerStateChange ==
    /\ [](stateTransitionHook =>
            /\ HooksTellEveryChange
            /\ Cardinality(TerminalHooks)
                 = IF Terminal(state.currentState) THEN 1 ELSE 0)
    /\ [][stateTransitionHook =>
            /\ Len(hooks') >= Len(hooks)
            /\ SubSeq(hooks', 1, Len(hooks)) = hooks
            /\ (state'.currentState # state.currentState
                  => Len(hooks') > Len(hooks))]_vars

\* A local observation, quorum and the final tick: three changes, three hooks.
C11_Witness ==
    /\ hooks = << <<StateInitialized, StateObserved>>,
                  <<StateObserved, StateQuorum>>,
                  <<StateQuorum, StateFinalized>> >>
    /\ pc = "done"

\* C12: once the context is cancelled Run handles no further local
\* observation, foreign observation or tick: its next step returns the
\* cancellation error; cancelling and returning change no field of the
\* reactor state.
C12_CancelStopsAtOnce ==
    /\ [][(ctxDone /\ pc = "running")
            => \/ last'.event = "time"
               \/ /\ last'.event = "cancelled"
                  /\ pc' = "cancelled"
                  /\ state' = state]_vars
    /\ [][(~ctxDone /\ ctxDone') => state' = state]_vars

\* C13: when Signer.Address or Signer.Sign fails in a local observation that
\* is being handled, Run dies in the panic; the handler has stored no
\* signature, set no localSignature, sent nothing, changed no currentState,
\* started no hook, and the mutex is released.
C13_SignerFailureAborts ==
    /\ [](\A o \in Observation, addrOk \in BOOLEAN, signOk \in BOOLEAN :
            (/\ config.Signer # NoSigner
             /\ AcceptsLocal(state.currentState)
             /\ ~(addrOk /\ signOk))
              => LET r == observed(Lock(Handling(state, hooks, sent)), o,
                                   addrOk, signOk, TRUE, TRUE)
                 IN  /\ r.panic
                     /\ r.state.signatures = state.signatures
                     /\ r.state.localSignature = NoSignature
                     /\ r.sent = sent
                     /\ r.send = "none"
                     /\ r.state.currentState = state.currentState
                     /\ r.hooks = hooks)
    /\ [][(pc = "running" /\ pc' = "panicked")
            => /\ last'.event = "local"
               /\ state'.signatures = state.signatures
               /\ state'.localSignature = NoSignature
               /\ sent' = sent
               /\ state'.currentState = state.currentState
               /\ hooks' = hooks
               /\ ~mutex']_vars

\* The signer failed in a late local observation: Run died in QuorumUnobserved
\* holding the foreign signatures.
C13_Witness ==
    /\ pc = "panicked"
    /\ state.currentState = StateQuorumUnobserved
    /\ state.signatures # <<>>
    /\ state.observation # NoObservation

AllowedChange ==
    {<<"local", StateInitialized, StateObserved>>,
     <<"foreign", StateInitialized, StateUnobserved>>,
     <<"local", StateUnobserved, StateObserved>>,
     <<"foreign", StateUnobserved, StateQuorumUnobserved>>,
     <<"local", StateObserved, StateQuorum>>,
     <<"foreign", StateObserved, StateQuorum>>,
     <<"local", StateQuorumUnobserved, StateQuorum>>,
     <<"tick", StateQuorum, StateFinalized>>,
     <<"tick", StateUnobserved, StateTimedOut>>,
     <<"tick", StateObserved, StateTimedOut>>,
     <<"tick", StateQuorumUnobserved, StateTimedOut>>}

\* C15: every change of currentState (each is reported by one hook, C11) is
\* one of the table, made by the event the table names; no state is entered
\* twice, Initialized is never entered again, Quorum never leads to TimedOut
\* and Finalized is entered from Quorum only.
C15_OnlyTableTransitions ==
    /\ [][\A i \in (Len(hooks) + 1) .. Len(hooks') :
            <<last'.event, hooks'[i][1], hooks'[i][2]>> \in AllowedChange]_vars
    /\ [](\A i \in 1 .. Len(hooks) :
            /\ hooks[i][2] # StateInitialized
            /\ \A j \in 1 .. Len(hooks) : i # j => hooks[i][2] # hooks[j][2]
            /\ ~(hooks[i][1] = StateQuorum /\ hooks[i][2] = StateTimedOut)
            /\ hooks[i][2] = StateFinalized => hooks[i][1] = StateQuorum)

\* The longest path of the table: Unobserved, QuorumUnobserved, Quorum, Finalized.
C15_Witness ==
    /\ Len(hooks) = 4
    /\ hooks[2] = <<StateUnobserved, StateQuorumUnobserved>>
    /\ hooks[3] = <<StateQuorumUnobserved, StateQuorum>>
    /\ state.currentState = StateFinalized

\* C16: currentState becomes TimedOut on a tick only, and only from Observed
\* with more than QuorumTimeout elapsed since lastObservation or from
\* Unobserved or QuorumUnobserved with more than UnobservedTimeout elapsed
\* since firstSeen; a foreign signature stored in Observed stamps
\* lastObservation; firstSeen is stamped when Initialized is left and no event
\* changes it afterwards.
C16_TimedOutOnlyAfterItsTimeout ==
    /\ [][(state.currentState # StateTimedOut /\ state'.currentState = StateTimedOut)
            => /\ last'.event = "tick"
               /\ \/ /\ state.currentState = StateObserved
                     /\ Since(state.lastObservation) > config.QuorumTimeout
                  \/ /\ state.currentState \in {StateUnobserved, StateQuorumUnobserved}
                     /\ Since(state.firstSeen) > config.UnobservedTimeout]_vars
    /\ [][(/\ state.currentState = StateObserved
           /\ last'.event = "foreign"
           /\ DOMAIN state'.signatures # DOMAIN state.signatures)
            => state'.lastObservation = TimeNow]_vars
    /\ [](state.currentState = StateInitialized => state.firstSeen = ZeroTime)
    /\ [][(state.currentState = StateInitialized
           /\ state'.currentState # StateInitialized)
            => state'.firstSeen = TimeNow]_vars
    /\ [][state.currentState # StateInitialized
            => state'.firstSeen = IF last'.event = "time"
                                  THEN Older(state.firstSeen)
                                  ELSE state.firstSeen]_vars

\* Timed out in QuorumUnobserved one second after the first foreign signature
\* although another one was stored just now.
C16_Witness ==
    /\ state.currentState = StateTimedOut
    /\ hooks[Len(hooks)] = <<StateQuorumUnobserved, StateTimedOut>>
    /\ config.UnobservedTimeout = 0
    /\ state.firstSeen = 1
    /\ state.lastObservation = 0
    /\ last.event = "tick"

\* The sender was invoked for the first time by the local observation that
\* took the reactor out of Initialized, the one that stamped firstSeen: no
\* invocation is older than firstSeen.
FirstSentAtFirstSeen ==
    /\ config.Signer # NoSigner
    /\ hooks # <<>>
    /\ hooks[1] = <<StateInitialized, StateObserved>>
    /\ sent # {}

\* C17: two consecutive invocations of the sender by a reactor in Observed are
\* more than RetransmitFrequency apart, whether the earlier one succeeded or
\* failed. Stated for a tick that invokes the sender again: the time since
\* firstSeen, which is at least the time since the invocation before, is more
\* than RetransmitFrequency. Stamps count whole seconds, so the elapsed time
\* is below the count plus one.
C17_AttemptsAreRetransmitFrequencyApart ==
    [][(/\ FirstSentAtFirstSeen
        /\ state.currentState = StateObserved
        /\ last'.event = "tick"
        /\ last'.send \in {"ok", "failed"})
         => Since(state.firstSeen) + 1 > config.RetransmitFrequency]_vars

\* C18: the sender is never invoked while currentState is Finalized or
\* TimedOut: an event that finds or leaves the reactor in a terminal state
\* hands nothing to the sender and leaves lastTransmission alone; in particular
\* the tick that moves Observed to TimedOut does not retransmit.
C18_NoSendInTerminalState ==
    [][(/\ last'.event \in {"local", "foreign", "tick"}
        /\ Terminal(state.currentState) \/ Terminal(state'.currentState))
         => /\ last'.send \notin {"ok", "failed"}
            /\ sent' = sent
            /\ state'.lastTransmission = state.lastTransmission]_vars

\* C19: a signature once stored under an address stays there with its bytes,
\* and an event adds at most one address.
C19_SignaturesAppendOnly ==
    [][/\ \A a \in DOMAIN state.signatures :
            /\ a \in DOMAIN state'.signatures
            /\ state'.signatures[a] = state.signatures[a]
       /\ Cardinality(DOMAIN state'.signatures)
            <= Cardinality(DOMAIN state.signatures) + 1]_vars

\* C20: in Quorum and in Finalized the observation is set and VAASignatures
\* returns at least floor(2|gs|/3)+1 entries.
C20_QuorumHoldsFullAttestation ==
    state.currentState \in {StateQuorum, StateFinalized}
        => /\ state.observation # NoObservation
           /\ Len(VAASignatures) >= (2 * Len(gs)) \div 3 + 1

====
